---- MODULE Spec2Model ----
(***************************************************************************)
(* teledrop: `main` of src/main.rs as a state machine.                     *)
(*                                                                         *)
(* The program is one sequential run: load the configuration, open the     *)
(* file named on the command line, check its size, read it, POST it to     *)
(* sendDocument, deserialize the answer, POST the file_id to getFile,      *)
(* deserialize the answer, print the download URL.  The environment        *)
(* (configuration file, command line, file system, the two HTTP answers)   *)
(* is drawn from small sets at the step that consumes it.                  *)
(*                                                                         *)
(* Rust's Option<T> and Result<T, E> are modelled as sequences of length   *)
(* at most one: <<>> is None / Err, <<v>> is Some(v) / Ok(v).              *)
(* A file_id is a sequence of one-character strings, so that the JSON      *)
(* serialization of the getFile request can escape it character by         *)
(* character.  Tokens, chat ids and file paths are only ever concatenated  *)
(* by format!, and are strings.                                            *)
(***************************************************************************)
EXTENDS Integers, Sequences, FiniteSets, TLC

\* ---------------------------------------------------------------- constants
API_URL_BASE == "https://api.telegram.org/bot"
API_SEND_DOCUMENT == "/sendDocument"
API_GET_FILE == "/getFile"
FILE_SIZE_LIMMIT == 20000000

\* process exit statuses of a Rust binary whose main returns Result
EXIT_OK == 0        \* main returned Ok(())
EXIT_ERR == 1       \* main returned Err(_) (the `?` operator)
EXIT_PANIC == 101   \* a panic unwound out of main (unwrap / expect)

\* ------------------------------------------------------------------- bounds
\* sizes within SizeSpread bytes of the limit are enumerated
SizeSpread == 2

\* ------------------------------------------------------- environment inputs
None == <<>>
Some(v) == <<v>>

Tokens == {"", "T", "123:ABC"}
ChatIds == {"", "42"}
Configs == [bot_token : Tokens, chat_id : ChatIds]

\* what file.metadata() can answer: Err, or Ok with a length
Sizes == {0, 500} \cup ((FILE_SIZE_LIMMIT - SizeSpread) .. (FILE_SIZE_LIMMIT + SizeSpread))
MetadataResults == {None} \cup {Some(n) : n \in Sizes}

FileIds == { <<>>, <<"A", "B", "C">>, <<"a", "\"", "b">>, <<"\\", "n">> }
FilePaths == {"", "documents/file_1.bin", "photos/p.jpg"}

(***************************************************************************)
(* The body of the sendDocument answer, as far as deserialization into     *)
(* TelegramResponseDocument can tell bodies apart.                         *)
(*   valid_json : the text is JSON at all                                  *)
(*   ok         : the "ok" member, None when the member is missing         *)
(*   result     : the "result" member, None when missing or null           *)
(* A result object carries "document" (None when missing) and `rest`,      *)
(* which says whether the other members TelegramResult requires            *)
(* (message_id, from, chat, date) are there with the right types.  A       *)
(* document object carries "file_id" (None when missing) and `rest` for    *)
(* file_name, mime_type, file_unique_id, file_size.                        *)
(***************************************************************************)
DocumentObjs == [file_id : {None} \cup {Some(f) : f \in FileIds}, rest : BOOLEAN]
ResultObjs == [document : {None} \cup {Some(d) : d \in DocumentObjs}, rest : BOOLEAN]
NotJson == [valid_json |-> FALSE, ok |-> None, result |-> None]
UploadBodies ==
    {NotJson} \cup
    [valid_json : {TRUE},
     ok : {None, Some(TRUE), Some(FALSE)},
     result : {None} \cup {Some(r) : r \in ResultObjs}]

(***************************************************************************)
(* The body of the getFile answer, as far as deserialization into          *)
(* FileUploadResponse can tell bodies apart: "result" carries "file_path"  *)
(* (None when missing) and `rest` for file_id, file_unique_id, file_size.  *)
(***************************************************************************)
FileResultObjs == [file_path : {None} \cup {Some(p) : p \in FilePaths}, rest : BOOLEAN]
GetFileBodies ==
    {NotJson} \cup
    [valid_json : {TRUE},
     ok : {None, Some(TRUE), Some(FALSE)},
     result : {None} \cup {Some(r) : r \in FileResultObjs}]

(***************************************************************************)
(* What one blocking HTTP exchange can come to: `.send()` fails            *)
(* ("send_err"), or it answers and `.text()` fails ("text_err"), or the    *)
(* body text is read ("ok").                                               *)
(***************************************************************************)
Reply(transport, body) == [transport |-> transport, body |-> body]
UploadReplies ==
    {Reply("send_err", NotJson), Reply("text_err", NotJson)} \cup
    {Reply("ok", b) : b \in UploadBodies}
GetFileReplies ==
    {Reply("send_err", NotJson), Reply("text_err", NotJson)} \cup
    {Reply("ok", b) : b \in GetFileBodies}

\* ------------------------------------------------------------ pure functions
\* Config::get_api_send_document
get_api_send_document(c) ==
    API_URL_BASE \o c.bot_token \o API_SEND_DOCUMENT \o "?chat_id=" \o c.chat_id

\* Config::get_api_get_file
get_api_get_file(c) ==
    API_URL_BASE \o c.bot_token \o API_GET_FILE

get_api_file_url_bot_prefix(c, file_path) ==
    API_URL_BASE \o "/file/bot" \o c.bot_token \o "/" \o file_path

\* Config::get_api_file_url
get_api_file_url(c, file_path) ==
    API_URL_BASE \o "/file/" \o c.bot_token \o "/" \o file_path

ConfigIncomplete_token_only(c) == c.bot_token = ""

\* the test of line 159: either parameter is the empty string
ConfigIncomplete(c) == c.bot_token = "" \/ c.chat_id = ""

\* file.metadata().map(|m| m.len()).unwrap_or(0)
metadata_len_unwrap_or_0(m) == IF m = None THEN 0 ELSE m[1]

SizeTooBig_ge(sz) == sz >= FILE_SIZE_LIMMIT

\* the test of line 182
SizeTooBig(sz) == sz > FILE_SIZE_LIMMIT

(***************************************************************************)
(* serde_json::from_str::<TelegramResponseDocument>: Err (None) unless the *)
(* text is JSON, "ok" is there, and "result", when there, has every        *)
(* member of TelegramResult and of TelegramDocument.  Ok carries           *)
(* [ok, result], result being Option<TelegramResult> reduced to the one    *)
(* member main reads, document.file_id.                                    *)
(***************************************************************************)
ResultShapeOk(r) ==
    /\ r.rest
    /\ r.document # None
    /\ r.document[1].rest
    /\ r.document[1].file_id # None

ParseUploadResponse(body) ==
    IF ~body.valid_json \/ body.ok = None THEN None
    ELSE IF body.result = None THEN Some([ok |-> body.ok[1], result |-> None])
    ELSE IF ~ResultShapeOk(body.result[1]) THEN None
    ELSE Some([ok |-> body.ok[1],
               result |-> Some([document |-> [file_id |-> body.result[1].document[1].file_id[1]]])])

(***************************************************************************)
(* serde_json::from_str::<FileUploadResponse>: "result" is not an Option   *)
(* here, so a body without it does not deserialize.                        *)
(***************************************************************************)
ParseGetFileResponse(body) ==
    IF ~body.valid_json \/ body.ok = None \/ body.result = None THEN None
    ELSE IF ~body.result[1].rest \/ body.result[1].file_path = None THEN None
    ELSE Some([ok |-> body.ok[1],
               result |-> [file_path |-> body.result[1].file_path[1]]])

\* serde_json's string escaping, on the characters the model draws from
EscapeChar(ch) ==
    IF ch = "\"" THEN <<"\\", "\"">>
    ELSE IF ch = "\\" THEN <<"\\", "\\">>
    ELSE <<ch>>

RECURSIVE EscapeJson(_)
EscapeJson(s) == IF s = <<>> THEN <<>> ELSE EscapeChar(Head(s)) \o EscapeJson(Tail(s))

SerializeRequestGetFile_unescaped(req) ==
    <<"{", "\"file_id\"", ":", <<"\"">> \o req.file_id \o <<"\"">>, "}">>

\* serde_json::to_string(&RequestGetFile { file_id }): {"file_id":"..."}
\* as the tokens  {  "file_id"  :  <string literal, character by character>  }
SerializeRequestGetFile(req) ==
    <<"{", "\"file_id\"", ":", <<"\"">> \o EscapeJson(req.file_id) \o <<"\"">>, "}">>

\* ---------------------------------------------------------------------- state
VARIABLES
    pc,               \* the statement of main that runs next
    cfg,              \* Option: the loaded Config
    size,             \* Option: the length taken from the metadata
    file_id,          \* `let mut file_id = String::new()`
    req_get_file_json,\* Option: the serialized getFile request
    download_url,     \* Option: the URL built from the getFile answer
    out,              \* what was printed, in order: <<text, argument>>
    requests,         \* the HTTP requests issued, in order
    exit_code,        \* Option: the process exit status
    \* history of the environment's answers, for stating properties
    cfg_at_load,      \* Option: the Config confy::load returned
    metadata_result,  \* Option<Option<len>>: what file.metadata() answered
    upload_reply,     \* Option: the sendDocument exchange
    get_file_reply,   \* Option: the getFile exchange
    returned_at       \* where main ended: the name of the return site

vars == <<pc, cfg, size, file_id, req_get_file_json, download_url, out,
          requests, exit_code, cfg_at_load, metadata_result, upload_reply,
          get_file_reply, returned_at>>

Init ==
    /\ pc = "load_config"
    /\ cfg = None
    /\ size = None
    /\ file_id = <<>>
    /\ req_get_file_json = None
    /\ download_url = None
    /\ out = <<>>
    /\ requests = <<>>
    /\ exit_code = None
    /\ cfg_at_load = None
    /\ metadata_result = None
    /\ upload_reply = None
    /\ get_file_reply = None
    /\ returned_at = "running"

println(text, arg) == <<text, arg>>

\* the process ends with status `code`, having printed `lines` on the way
Exit(code, site, lines) ==
    /\ pc' = "exit"
    /\ exit_code' = Some(code)
    /\ returned_at' = site
    /\ out' = out \o lines

\* -------------------------------------------------------------------- actions
\* lines 144-151: confy::load
LoadConfig ==
    /\ pc = "load_config"
    /\ \E cfg_result \in {None} \cup {Some(c) : c \in Configs} :
         /\ cfg_at_load' = cfg_result
         /\ IF cfg_result = None
            THEN /\ Exit(EXIT_OK, "config_error", <<println("Config error:", "")>>)
                 /\ cfg' = cfg
            ELSE /\ cfg' = cfg_result
                 /\ pc' = "check_config"
                 /\ UNCHANGED <<out, exit_code, returned_at>>
    /\ UNCHANGED <<size, file_id, req_get_file_json, download_url, requests,
                   metadata_result, upload_reply, get_file_reply>>

\* lines 153-164: both parameters must be there
CheckConfig ==
    /\ pc = "check_config"
    /\ LET c == cfg[1]
           lines ==
               (IF c.bot_token = ""
                THEN <<println("Config param bot_token is missing", "")>> ELSE <<>>)
               \o
               (IF c.chat_id = ""
                THEN <<println("Config param chat_id is missing", "")>> ELSE <<>>)
       IN IF ConfigIncomplete(c)
          THEN Exit(EXIT_OK, "config_missing",
                    lines \o <<println("Please set up your configuration file at", "")>>)
          ELSE /\ pc' = "get_arg"
               /\ out' = out \o lines
               /\ UNCHANGED <<exit_code, returned_at>>
    /\ UNCHANGED <<cfg, size, file_id, req_get_file_json, download_url, requests,
                   cfg_at_load, metadata_result, upload_reply, get_file_reply>>

\* lines 169-174: env::args().nth(1)
GetArg ==
    /\ pc = "get_arg"
    /\ \E filename_opt \in {None, Some("file.bin")} :
         IF filename_opt = None
         THEN Exit(EXIT_OK, "no_filename", <<println("No filename provided", "")>>)
         ELSE /\ pc' = "open_file"
              /\ UNCHANGED <<out, exit_code, returned_at>>
    /\ UNCHANGED <<cfg, size, file_id, req_get_file_json, download_url, requests,
                   cfg_at_load, metadata_result, upload_reply, get_file_reply>>

\* lines 175-180: File::open
OpenFile ==
    /\ pc = "open_file"
    /\ \E file_opt_is_err \in BOOLEAN :
         IF file_opt_is_err
         THEN Exit(EXIT_OK, "file_not_found", <<println("File not found", "")>>)
         ELSE /\ pc' = "check_size"
              /\ UNCHANGED <<out, exit_code, returned_at>>
    /\ UNCHANGED <<cfg, size, file_id, req_get_file_json, download_url, requests,
                   cfg_at_load, metadata_result, upload_reply, get_file_reply>>

CheckSize_exit_err ==
    /\ pc = "check_size"
    /\ \E m \in MetadataResults :
         LET sz == metadata_len_unwrap_or_0(m)
         IN /\ metadata_result' = Some(m)
            /\ size' = Some(sz)
            /\ IF SizeTooBig(sz)
               THEN Exit(EXIT_ERR, "file_too_big",
                         <<println("File size is too big. Max allowed is", sz)>>)
               ELSE /\ pc' = "read_file"
                    /\ UNCHANGED <<out, exit_code, returned_at>>
    /\ UNCHANGED <<cfg, file_id, req_get_file_json, download_url, requests,
                   cfg_at_load, upload_reply, get_file_reply>>

\* lines 181-186: the size check.  The message prints size / 1_000_000.0
\* after the words "Max allowed is"; the model keeps the size as its argument.
CheckSize ==
    /\ pc = "check_size"
    /\ \E m \in MetadataResults :
         LET sz == metadata_len_unwrap_or_0(m)
         IN /\ metadata_result' = Some(m)
            /\ size' = Some(sz)
            /\ IF SizeTooBig(sz)
               THEN Exit(EXIT_OK, "file_too_big",
                         <<println("File size is too big. Max allowed is", sz)>>)
               ELSE /\ pc' = "read_file"
                    /\ UNCHANGED <<out, exit_code, returned_at>>
    /\ UNCHANGED <<cfg, file_id, req_get_file_json, download_url, requests,
                   cfg_at_load, upload_reply, get_file_reply>>

\* lines 189-203: read_to_end(..).expect(..) panics on a read error; building
\* the form cannot fail, "application/octet-stream" being a valid mime type
ReadFile ==
    /\ pc = "read_file"
    /\ \E read_is_err \in BOOLEAN :
         IF read_is_err
         THEN Exit(EXIT_PANIC, "read_panic", <<>>)
         ELSE /\ pc' = "send_upload"
              /\ UNCHANGED <<out, exit_code, returned_at>>
    /\ UNCHANGED <<cfg, size, file_id, req_get_file_json, download_url, requests,
                   cfg_at_load, metadata_result, upload_reply, get_file_reply>>

\* lines 243-247: the sendDocument request goes out; main blocks in send()
SendUpload ==
    /\ pc = "send_upload"
    /\ requests' = Append(requests,
                          [api |-> "sendDocument",
                           url |-> get_api_send_document(cfg[1]),
                           body |-> <<"multipart", "document", "filename.bin",
                                      "application/octet-stream">>])
    /\ pc' = "recv_upload"
    /\ UNCHANGED <<cfg, size, file_id, req_get_file_json, download_url, out,
                   exit_code, cfg_at_load, metadata_result, upload_reply,
                   get_file_reply, returned_at>>

\* lines 247-289: send()? and text()? return Err out of main; the body is
\* deserialized and the file_id taken from it
RecvUpload ==
    /\ pc = "recv_upload"
    /\ \E reply \in UploadReplies :
         /\ upload_reply' = Some(reply)
         /\ IF reply.transport # "ok"
            THEN /\ Exit(EXIT_ERR, "upload_network_error", <<>>)
                 /\ file_id' = file_id
            ELSE LET result == ParseUploadResponse(reply.body)
                 IN IF result = None
                    THEN \* Err(err): printed, nothing else
                         /\ out' = out \o <<println("Error deserializing response:", "")>>
                         /\ file_id' = file_id
                         /\ pc' = "send_get_file"
                         /\ UNCHANGED <<exit_code, returned_at>>
                    ELSE LET r == result[1]
                             lines ==
                                 (IF ~r.ok
                                  THEN <<println("Uploading error", "")>> ELSE <<>>)
                                 \o
                                 (IF r.result = None
                                  THEN <<println("Uploading error", "")>> ELSE <<>>)
                         IN IF r.result = None
                            THEN \* r.result.unwrap() panics
                                 /\ Exit(EXIT_PANIC, "upload_unwrap_panic", lines)
                                 /\ file_id' = file_id
                            ELSE /\ file_id' = r.result[1].document.file_id
                                 /\ out' = out \o lines
                                               \o <<println("File ID: ", file_id')>>
                                 /\ pc' = "send_get_file"
                                 /\ UNCHANGED <<exit_code, returned_at>>
    /\ UNCHANGED <<cfg, size, req_get_file_json, download_url, requests,
                   cfg_at_load, metadata_result, get_file_reply>>

\* lines 292-315: the getFile request is serialized and goes out.  to_string
\* of a struct holding one String cannot fail, so the Err arm of lines
\* 302-305 is never taken.
SendGetFile ==
    /\ pc = "send_get_file"
    /\ LET req_get_file == [file_id |-> file_id]
           json == SerializeRequestGetFile(req_get_file)
       IN /\ req_get_file_json' = Some(json)
          /\ requests' = Append(requests,
                                [api |-> "getFile",
                                 url |-> get_api_get_file(cfg[1]),
                                 body |-> json])
    /\ pc' = "recv_get_file"
    /\ UNCHANGED <<cfg, size, file_id, download_url, out, exit_code, cfg_at_load,
                   metadata_result, upload_reply, get_file_reply, returned_at>>

\* lines 315-324: send()?, text()? and from_str(..)? return Err out of main;
\* otherwise the URL is built from result.file_path and printed
RecvGetFile ==
    /\ pc = "recv_get_file"
    /\ \E reply \in GetFileReplies :
         /\ get_file_reply' = Some(reply)
         /\ IF reply.transport # "ok"
            THEN /\ Exit(EXIT_ERR, "get_file_network_error", <<>>)
                 /\ download_url' = download_url
            ELSE LET response == ParseGetFileResponse(reply.body)
                 IN IF response = None
                    THEN /\ Exit(EXIT_ERR, "get_file_parse_error", <<>>)
                         /\ download_url' = download_url
                    ELSE LET file_path == response[1].result.file_path
                             url == get_api_file_url(cfg[1], file_path)
                         IN /\ download_url' = Some(url)
                            /\ Exit(EXIT_OK, "success",
                                    <<println("Download URL (valid for 1 hour): ", url)>>)
    /\ UNCHANGED <<cfg, size, file_id, req_get_file_json, requests, cfg_at_load,
                   metadata_result, upload_reply>>

Next ==
    \/ LoadConfig
    \/ CheckConfig
    \/ GetArg
    \/ OpenFile
    \/ CheckSize
    \/ ReadFile
    \/ SendUpload
    \/ RecvUpload
    \/ SendGetFile
    \/ RecvGetFile

Spec == Init /\ [][Next]_vars

\* ------------------------------------------------- vocabulary of the properties
Printed(text) == \E i \in DOMAIN out : out[i][1] = text
Sent(api) == \E i \in DOMAIN requests : requests[i].api = api
CountSent(api) == Cardinality({i \in DOMAIN requests : requests[i].api = api})

MSG_TOO_BIG == "File size is too big. Max allowed is"
MSG_UPLOAD_ERROR == "Uploading error"
MSG_DESERIALIZE == "Error deserializing response:"
MSG_FILE_ID == "File ID: "
MSG_URL == "Download URL (valid for 1 hour): "
MSG_SETUP == "Please set up your configuration file at"

\* the length file.metadata() reported, when it reported one
ReportedLength == metadata_result[1][1]
LengthReported == metadata_result # None /\ metadata_result[1] # None

\* the sendDocument body was read and deserialized
UploadParsed ==
    /\ upload_reply # None
    /\ upload_reply[1].transport = "ok"
    /\ ParseUploadResponse(upload_reply[1].body) # None
UploadEnvelope == ParseUploadResponse(upload_reply[1].body)[1]

\* the sendDocument body was read and did not deserialize
UploadMalformed ==
    /\ upload_reply # None
    /\ upload_reply[1].transport = "ok"
    /\ ParseUploadResponse(upload_reply[1].body) = None

\* the getFile body was read and deserialized
GetFileParsed ==
    /\ get_file_reply # None
    /\ get_file_reply[1].transport = "ok"
    /\ ParseGetFileResponse(get_file_reply[1].body) # None
GetFileEnvelope == ParseGetFileResponse(get_file_reply[1].body)[1]

\* what a JSON reader makes of a string literal: the characters after the
\* opening quote up to the first quote that is not escaped
RECURSIVE ReadJsonString(_)
ReadJsonString(s) ==
    IF s = <<>> THEN <<>>
    ELSE IF Head(s) = "\"" THEN <<>>
    ELSE IF Head(s) = "\\"
         THEN IF Len(s) >= 2 THEN <<s[2]>> \o ReadJsonString(Tail(Tail(s))) ELSE <<>>
         ELSE <<Head(s)>> \o ReadJsonString(Tail(s))

\* the file_id a JSON reader finds in a getFile request body
FileIdInBody(body) ==
    IF Len(body) = 5 /\ body[1] = "{" /\ body[2] = "\"file_id\"" /\ body[3] = ":"
       /\ body[5] = "}" /\ body[4] # <<>> /\ Head(body[4]) = "\""
    THEN Some(ReadJsonString(Tail(body[4])))
    ELSE None

\* --------------------------------------------------------------------- claims

\* C1: when the opened file's length, as file.metadata() reports it, is
\* greater than 20,000,000, no sendDocument request is ever sent and the
\* file-too-large message is printed; a length of 20,000,000 or less is not
\* rejected by the size check.
C1_SizeCeiling ==
    LengthReported =>
        /\ size = Some(ReportedLength)
        /\ ReportedLength > 20000000 =>
               /\ ~Sent("sendDocument")
               /\ requests = <<>>
               /\ Printed(MSG_TOO_BIG)
               /\ pc = "exit"
        /\ ReportedLength <= 20000000 =>
               /\ ~Printed(MSG_TOO_BIG)
               /\ returned_at # "file_too_big"

C1_Witness ==
    /\ LengthReported
    /\ ReportedLength = 20000001
    /\ pc = "exit"
    /\ Printed(MSG_TOO_BIG)

\* C2: when the sendDocument answer deserializes as an envelope with
\* ok = false or without result, the run reports "Uploading error", does not
\* panic, takes no file_id, and ends without sending getFile.
C2_UploadRejected ==
    (UploadParsed /\ (~UploadEnvelope.ok \/ UploadEnvelope.result = None)) =>
        /\ Printed(MSG_UPLOAD_ERROR)
        /\ exit_code # Some(EXIT_PANIC)
        /\ file_id = <<>>
        /\ ~Printed(MSG_FILE_ID)
        /\ ~Sent("getFile")
        /\ pc = "exit"

\* C3: when the sendDocument body is not JSON or not of the expected shape,
\* the run reports the deserialization error, exits with code 0, and never
\* sends getFile.
C3_MalformedUpload ==
    UploadMalformed =>
        /\ Printed(MSG_DESERIALIZE)
        /\ ~Sent("getFile")
        /\ pc = "exit"
        /\ exit_code = Some(0)

\* C4: when the getFile answer has ok = false or an empty file_path, the run
\* ends with a non-zero exit status and no download URL is produced.
C4_ResolveFailedCase ==
    /\ get_file_reply # None
    /\ get_file_reply[1].transport = "ok"
    /\ get_file_reply[1].body.valid_json
    /\ \/ get_file_reply[1].body.ok = Some(FALSE)
       \/ /\ get_file_reply[1].body.result # None
          /\ get_file_reply[1].body.result[1].file_path = Some("")

C4_ResolveFailed ==
    C4_ResolveFailedCase =>
        /\ pc = "exit"
        /\ exit_code # Some(0)
        /\ download_url = None
        /\ ~Printed(MSG_URL)

\* C5 as stated: the exit code is non-zero exactly for FileTooLarge and
\* ResolveFailed, and 0 for every other terminal outcome.
C5_ExitCodes_AsStated ==
    pc = "exit" =>
        (exit_code # Some(0) <=> (returned_at = "file_too_big" \/ C4_ResolveFailedCase))

\* C5 (amended): the exit code is non-zero exactly when the run ends on a
\* transport error at either call, on a panic (read error, or an upload
\* envelope without result), or on a getFile answer that does not
\* deserialize; every other terminal outcome -- config error, missing
\* parameter, missing argument, file not found, file too large, URL
\* printed -- exits with code 0.
C5_ExitCodes ==
    pc = "exit" =>
        /\ exit_code # None
        /\ exit_code # Some(0) <=>
               \/ (upload_reply # None /\ upload_reply[1].transport # "ok")
               \/ (get_file_reply # None /\ get_file_reply[1].transport # "ok")
               \/ returned_at = "read_panic"
               \/ (UploadParsed /\ UploadEnvelope.result = None)
               \/ (get_file_reply # None /\ ~GetFileParsed)
        /\ returned_at \in {"config_error", "config_missing", "no_filename",
                            "file_not_found", "file_too_big", "success"}
               => exit_code = Some(0)
        /\ returned_at \in {"upload_network_error", "get_file_network_error",
                            "get_file_parse_error"}
               => exit_code = Some(1)
        /\ returned_at \in {"read_panic", "upload_unwrap_panic"}
               => exit_code = Some(101)

C5_Witness ==
    /\ pc = "exit"
    /\ returned_at = "file_too_big"
    /\ exit_code = Some(0)

\* C6: a configuration that cannot be loaded, or whose bot_token or chat_id
\* is empty, ends the run with a message and exit code 0 before any request;
\* whenever a request has been sent, both parameters are non-empty and are
\* the ones that were loaded.
C6_ConfigBeforeNetwork ==
    /\ requests # <<>> =>
           /\ cfg # None
           /\ cfg[1].bot_token # ""
           /\ cfg[1].chat_id # ""
           /\ cfg = cfg_at_load
    /\ (pc # "load_config" /\ cfg_at_load = None) =>
           /\ pc = "exit"
           /\ exit_code = Some(0)
           /\ Printed("Config error:")
           /\ requests = <<>>
    /\ (pc \notin {"load_config", "check_config"} /\ cfg_at_load # None
        /\ (cfg_at_load[1].bot_token = "" \/ cfg_at_load[1].chat_id = "")) =>
           /\ pc = "exit"
           /\ exit_code = Some(0)
           /\ Printed(MSG_SETUP)
           /\ requests = <<>>

C6_Witness ==
    /\ pc = "exit"
    /\ cfg # None
    /\ cfg[1].bot_token # ""
    /\ cfg[1].chat_id = ""
    /\ Printed(MSG_SETUP)
    /\ Printed("Config param chat_id is missing")

\* C7: when the sendDocument answer is a success envelope of the expected
\* shape carrying document.file_id = X, the file_id main holds is X, and the
\* file_id a JSON reader finds in the getFile request body is X.
C7_WellFormedSuccess ==
    /\ upload_reply # None
    /\ upload_reply[1].transport = "ok"
    /\ upload_reply[1].body.valid_json
    /\ upload_reply[1].body.ok = Some(TRUE)
    /\ upload_reply[1].body.result # None
    /\ ResultShapeOk(upload_reply[1].body.result[1])

C7_X == upload_reply[1].body.result[1].document[1].file_id[1]

C8_UrlIsTemplate ==
    download_url # None =>
        /\ GetFileParsed
        /\ download_url[1] =
               "https://api.telegram.org/bot" \o "/file/" \o cfg[1].bot_token
                   \o "/" \o GetFileEnvelope.result.file_path
        /\ (cfg[1].bot_token = "T"
            /\ GetFileEnvelope.result.file_path = "documents/file_1.bin")
               => download_url[1] =
                      "https://api.telegram.org/bot/file/T/documents/file_1.bin"

C8_UrlConstruction ==
    /\ []C8_UrlIsTemplate
    /\ [][download_url' # download_url => requests' = requests]_vars

C8_Witness ==
    download_url = Some("https://api.telegram.org/bot/file/T/documents/file_1.bin")

\* C9: at most one sendDocument and one getFile request are sent, in that
\* order, getFile only after the sendDocument answer has come, and the run
\* stops at the first failing step: once an error has been reported no later
\* step runs.
C9_ErrorReported ==
    \/ Printed("Config error:")
    \/ Printed(MSG_SETUP)
    \/ Printed("No filename provided")
    \/ Printed("File not found")
    \/ Printed(MSG_TOO_BIG)
    \/ Printed(MSG_UPLOAD_ERROR)
    \/ Printed(MSG_DESERIALIZE)

C9_StrictSequence ==
    /\ CountSent("sendDocument") <= 1
    /\ CountSent("getFile") <= 1
    /\ Len(requests) >= 1 => requests[1].api = "sendDocument"
    /\ Sent("getFile") => upload_reply # None
    /\ C9_ErrorReported => (pc = "exit" /\ ~Sent("getFile") /\ download_url = None)

\* C10: a download URL is printed only when the sendDocument answer yielded
\* a non-empty file_id and the getFile answer deserialized; never after an
\* upload error was reported.
C10_UrlOnlyAfterCleanUpload ==
    Printed(MSG_URL) =>
        /\ UploadParsed
        /\ UploadEnvelope.result # None
        /\ file_id # <<>>
        /\ Sent("getFile")
        /\ GetFileParsed
        /\ ~Printed(MSG_UPLOAD_ERROR)
        /\ ~Printed(MSG_DESERIALIZE)

====
